---------------------------- MODULE Spec2Model ----------------------------
(***************************************************************************)
(* Model of iotinator's AgentCollection (src/iotinator/AgentCollection.cpp):*)
(* the master-side registry of agent modules, keyed by MAC address.        *)
(*                                                                         *)
(* C strings are sequences of one-character strings, a NULL pointer is the *)
(* empty tuple and a non-NULL pointer to a value v is <<v>>.  Agent        *)
(* objects live in `store' (the C++ heap), indexed by their address;       *)
(* `_agents' is the std::map, kept as the key-ordered sequence of its      *)
(* (first, second) pairs, second being the address of the Agent.           *)
(***************************************************************************)
EXTENDS Integers, Sequences, FiniteSets, TLC

VARIABLES
  _agents,          \* std::map<mac, Agent*>: sequence of pairs ordered by key
  store,            \* heap: address -> Agent object (live objects only)
  _listBufferSize,  \* cached size estimate used by list()
  last              \* the last call made on the collection and what it did

vars == <<_agents, store, _listBufferSize, last>>

-----------------------------------------------------------------------------
(* Bounds of the model *)

\* largest pingPeriod a registration payload of the ping specification carries
MaxPingPeriod == 1

\* longest custom payload (in characters) a payload carries
MaxCustomLen == 2

\* the length of the custom payload of a module that reports much
LongCustomLen == 120

-----------------------------------------------------------------------------
(* Constants of the XIOT headers *)

NAME_MAX_LENGTH == 20
MAC_ADDR_MAX_LENGTH == 17
DOUBLE_IP_MAX_LENGTH == 31
UI_CLASS_NAME_MAX_LENGTH == 30
LIST_BUFFER_SIZE == 20

\* sizeof(uint32_t), line 116
SizeofUint32 == 4

\* the value size reserved for "true" or "false", lines 113-114
BoolValueSize == 5

NULL == <<>>

Ptr(v) == <<v>>

Deref(p) == p[1]

\* strlen() of the JSON tags XIOTModuleJsonTag::MAC, name, ip, ...
TagLen(tag) ==
  CASE tag = "MAC" -> 3
    [] tag = "name" -> 4
    [] tag = "ip" -> 2
    [] tag = "canSleep" -> 8
    [] tag = "pong" -> 4
    [] tag = "uiClassName" -> 11
    [] tag = "heap" -> 4
    [] tag = "custom" -> 6
    [] tag = "pingPeriod" -> 10

-----------------------------------------------------------------------------
(* C string functions used by renameOne *)

Digits == <<"0", "1", "2", "3", "4", "5", "6", "7", "8", "9">>

IsDigit(c) == \E d \in 1..10 : Digits[d] = c

DigitVal(c) == (CHOOSE d \in 1..10 : Digits[d] = c) - 1

\* the decimal digits of n >= 0, as printf's %d writes them
RECURSIVE UDecimal(_)
UDecimal(n) ==
  IF n < 10 THEN <<Digits[n + 1]>>
  ELSE UDecimal(n \div 10) \o <<Digits[(n % 10) + 1]>>

\* printf's %d
Decimal(n) == IF n < 0 THEN <<"-">> \o UDecimal(0 - n) ELSE UDecimal(n)

\* the value of the run of digits of s that starts at index i, after acc
RECURSIVE DigitRun(_, _, _)
DigitRun(s, i, acc) ==
  IF i > Len(s) \/ ~IsDigit(s[i]) THEN acc
  ELSE DigitRun(s, i + 1, acc * 10 + DigitVal(s[i]))

\* index of the first character of s at or after i that is not blank
RECURSIVE SkipBlanks(_, _)
SkipBlanks(s, i) ==
  IF i > Len(s) \/ s[i] # " " THEN i ELSE SkipBlanks(s, i + 1)

\* atoi(): blanks, an optional sign, then digits; 0 when there is no digit
atoi(s) ==
  LET i == SkipBlanks(s, 1) IN
    IF i > Len(s) THEN 0
    ELSE IF s[i] = "-" THEN 0 - DigitRun(s, i + 1, 0)
    ELSE IF s[i] = "+" THEN DigitRun(s, i + 1, 0)
    ELSE DigitRun(s, i, 0)

\* strtok scanning: first index >= i whose character is not the delimiter
RECURSIVE SkipDelims(_, _, _)
SkipDelims(s, i, delim) ==
  IF i > Len(s) \/ s[i] # delim THEN i ELSE SkipDelims(s, i + 1, delim)

\* strtok scanning: first index >= i whose character is the delimiter
FindDelim(s, i, delim) ==
  IF \E j \in i..Len(s) : s[j] = delim
    THEN CHOOSE j \in i..Len(s) :
           s[j] = delim /\ \A k \in i..(j - 1) : s[k] # delim
    ELSE Len(s) + 1

\* strtok(str, delim) on the text str that starts at the scanning position:
\* token is the token found (NULL when only delimiters are left), nulAt the
\* index of the delimiter strtok overwrites with NUL (0 when the token runs to
\* the end of the text) and rest the text the next strtok(NULL, delim) scans.
strtok(str, delim) ==
  LET start == SkipDelims(str, 1, delim)
      stop == FindDelim(str, start, delim)
  IN IF start > Len(str)
       THEN [token |-> NULL, nulAt |-> 0, rest |-> <<>>]
       ELSE [token |-> Ptr(SubSeq(str, start, stop - 1)),
             nulAt |-> IF stop <= Len(str) THEN stop ELSE 0,
             rest |-> SubSeq(str, stop + 1, Len(str))]

-----------------------------------------------------------------------------
(* The Agent class (Agent.h is not part of the sources: the record follows *)
(* the accessors AgentCollection.cpp calls and the data model of the spec) *)

\* new Agent(name, mac, module), line 69
NewAgent(name, mac) ==
  [name |-> name, mac |-> mac, ip |-> "", canSleep |-> FALSE, pingPeriod |-> 0,
   custom |-> NULL, uiClassName |-> NULL, heap |-> 0, pong |-> FALSE,
   toRename |-> FALSE]

\* Agent::renameTo: sets the name and clears the pending-rename flag
renameTo(agent, newName) == [agent EXCEPT !.name = newName, !.toRename = FALSE]

\* Agent::ping: contacts the module; pong keeps the outcome
AgentPing(agent, result) == [agent EXCEPT !.pong = result]

\* Agent::reset: asks the module to reset; the Agent object is not changed
AgentReset(agent, result) == agent

-----------------------------------------------------------------------------
(* ArduinoJson: a request text is modelled by whether it is a well-formed   *)
(* JSON object and by the members it spells                                *)

\* parseObject as it would be if the parser's verdict were ignored
parseObjectUnchecked(jsonStr) == [success |-> TRUE, members |-> jsonStr.members]

\* jsonBuffer.parseObject(jsonStr), lines 21 and 53
parseObject(jsonStr) ==
  IF jsonStr.wellFormed
    THEN [success |-> TRUE, members |-> jsonStr.members]
    ELSE [success |-> FALSE, members |-> <<>>]

\* (const char*)root[tag]: NULL when the member is absent
AsCharPtr(root, tag) ==
  IF root.success /\ tag \in DOMAIN root.members THEN Ptr(root.members[tag]) ELSE NULL

\* (bool)root[tag]: false when the member is absent
AsBool(root, tag) ==
  IF root.success /\ tag \in DOMAIN root.members THEN root.members[tag] ELSE FALSE

\* (int)root[tag]: 0 when the member is absent
AsInt(root, tag) ==
  IF root.success /\ tag \in DOMAIN root.members THEN root.members[tag] ELSE 0

-----------------------------------------------------------------------------
(* std::map<std::string, Agent*> *)

\* the MAC addresses modules register with, in std::string order
MacOrder == <<"AA:AA", "BB:BB", "CC:CC">>

KeyIndex(key) == CHOOSE i \in 1..Len(MacOrder) : MacOrder[i] = key

\* std::less<std::string>
KeyLess(a, b) == KeyIndex(a) < KeyIndex(b)

\* _agents.find(key): the position of the pair, 0 for _agents.end()
MapFind(map, key) ==
  IF \E i \in 1..Len(map) : map[i].first = key
    THEN CHOOSE i \in 1..Len(map) : map[i].first = key
    ELSE 0

\* the number of keys of map that are less than key
LowerCount(map, key) == Cardinality({i \in 1..Len(map) : KeyLess(map[i].first, key)})

\* insert as a multimap would do it: the pair is added whatever the keys present
MapInsertAlways(map, key, ptr) ==
  LET n == Cardinality({i \in 1..Len(map) : KeyLess(map[i].first, key)})
  IN [map |-> SubSeq(map, 1, n) \o <<[first |-> key, second |-> ptr]>>
                \o SubSeq(map, n + 1, Len(map)),
      at |-> n + 1, second |-> TRUE]

\* _agents.insert(agentPair(key, ptr)): nothing is inserted when the key exists;
\* it is the resulting map, at is the position of the pair with that key
MapInsert(map, key, ptr) ==
  LET found == MapFind(map, key)
      n == LowerCount(map, key)
  IN IF found # 0
       THEN [map |-> map, at |-> found, second |-> FALSE]
       ELSE [map |-> SubSeq(map, 1, n) \o <<[first |-> key, second |-> ptr]>>
                       \o SubSeq(map, n + 1, Len(map)),
             at |-> n + 1, second |-> TRUE]

\* operator new for an Agent built for mac: an address no live object has.
\* Addresses are only ever compared, so the allocator is free in its choice:
\* it serves the slot of the mac when that is free, and a slot beyond otherwise
NewAddress(st, mac) ==
  IF KeyIndex(mac) \notin DOMAIN st THEN KeyIndex(mac)
  ELSE CHOOSE a \in (Len(MacOrder) + 1)..(Len(MacOrder) + 1 + Cardinality(DOMAIN st)) :
         a \notin DOMAIN st

\* the heap with one more object
Alloc(st, a, obj) == [p \in DOMAIN st \cup {a} |-> IF p = a THEN obj ELSE st[p]]

\* delete
Free(st, a) == [p \in DOMAIN st \ {a} |-> st[p]]

-----------------------------------------------------------------------------
(* AgentCollection *)

\* the record of a call: the method, its jsonStr argument, the Agent* it
\* returns, the HTTP status sent from within it, the Agent methods it invoked
\* in turn (with their results), and for list() the composite and the
\* malloc'ed size; agent is the Agent* argument of renameOne and str the
\* string list() returns
Call(op, arg, ret, http, calls, out, size) ==
  [op |-> op, arg |-> arg, ret |-> ret, http |-> http, calls |-> calls,
   out |-> out, size |-> size, agent |-> NULL, str |-> NULL]

\* getCount(), lines 14-16
getCount(map) == Len(map)

\* the Agent object the pair at position i points to
AgentAt(map, st, i) == st[map[i].second]

\* the loop of nameAlreadyExists from position i on, lines 241-247
RECURSIVE NameLoop(_, _, _, _, _)
NameLoop(map, st, name, mac, i) ==
  IF i > Len(map) THEN FALSE
  ELSE IF AgentAt(map, st, i).name = name /\ AgentAt(map, st, i).mac # mac
    THEN TRUE
    ELSE NameLoop(map, st, name, mac, i + 1)

\* nameAlreadyExists as it would be without the comparison of the macs
nameExistsOnAnyMac(map, st, name, mac) ==
  \E i \in 1..Len(map) : AgentAt(map, st, i).name = name

\* nameAlreadyExists(name, mac), lines 240-248
nameAlreadyExists(map, st, name, mac) == NameLoop(map, st, name, mac, 1)

\* _jsonAttributeSize(moduleCount, attrName, valueSize), lines 99-102
jsonAttributeSize(moduleCount, attrName, valueSize) ==
  moduleCount * (valueSize + TagLen(attrName) + 2 + 1 + 1)

\* _refreshListBufferSize(), lines 107-117: the new value of _listBufferSize
refreshListBufferSize(map) ==
  LET moduleCount == getCount(map) IN
    LIST_BUFFER_SIZE
    + jsonAttributeSize(moduleCount, "MAC", MAC_ADDR_MAX_LENGTH)
    + jsonAttributeSize(moduleCount, "name", NAME_MAX_LENGTH)
    + jsonAttributeSize(moduleCount, "ip", DOUBLE_IP_MAX_LENGTH)
    + jsonAttributeSize(moduleCount, "canSleep", BoolValueSize)
    + jsonAttributeSize(moduleCount, "pong", BoolValueSize)
    + jsonAttributeSize(moduleCount, "uiClassName", UI_CLASS_NAME_MAX_LENGTH)
    + jsonAttributeSize(moduleCount, "heap", SizeofUint32)

\* lines 69-76 without lines 73-76: the new object is kept and used although
\* the map refused it
InsertAgentKeepFresh(map, st, name, mac) ==
  LET fresh == NewAddress(st, mac)
      agentIt == MapInsert(map, mac, fresh)
  IN [map |-> agentIt.map, store |-> Alloc(st, fresh, NewAgent(name, mac)),
      agent |-> fresh]

\* lines 69-76 of add: allocate an Agent and insert it; when the key is
\* already there the new object is deleted and the registered one is used
InsertAgent(map, st, name, mac) ==
  LET fresh == NewAddress(st, mac)
      st1 == Alloc(st, fresh, NewAgent(name, mac))
      agentIt == MapInsert(map, mac, fresh)
  IN IF ~agentIt.second
       THEN [map |-> agentIt.map, store |-> Free(st1, fresh),
             agent |-> agentIt.map[agentIt.at].second]
       ELSE [map |-> agentIt.map, store |-> st1, agent |-> fresh]

\* lines 78-86 as they would be if a member the payload lacks left the field
\* of the Agent as it was
UpdateFieldsPresentOnly(agent, root, name, ip) ==
  LET Keep(tag, field, value) ==
        IF tag \in DOMAIN root.members THEN value ELSE agent[field]
  IN [agent EXCEPT !.canSleep = Keep("canSleep", "canSleep", AsBool(root, "canSleep")),
                   !.custom = Keep("custom", "custom", AsCharPtr(root, "custom")),
                   !.uiClassName = Keep("uiClassName", "uiClassName",
                                        AsCharPtr(root, "uiClassName")),
                   !.heap = Keep("heap", "heap", AsInt(root, "heap")),
                   !.pingPeriod = Keep("pingPeriod", "pingPeriod",
                                       AsInt(root, "pingPeriod")),
                   !.ip = ip,
                   !.name = name]

\* lines 78-86 of add: the fields of the Agent are overwritten from the payload
UpdateFields(agent, root, name, ip) ==
  [agent EXCEPT !.canSleep = AsBool(root, "canSleep"),
                !.custom = AsCharPtr(root, "custom"),
                !.uiClassName = AsCharPtr(root, "uiClassName"),
                !.heap = AsInt(root, "heap"),
                !.pingPeriod = AsInt(root, "pingPeriod"),
                !.ip = ip,
                !.name = name]

\* lines 88-91 as they would be if the Agent's own name counted as a duplicate
FlagIfNameKnown(map, st, a, name, mac) ==
  IF \E i \in 1..Len(map) : AgentAt(map, st, i).name = name
    THEN [st EXCEPT ![a].toRename = TRUE]
    ELSE st

\* lines 88-91 as they would be if add also cleared the flag of an Agent whose
\* name no other mac has
FlagOrClear(map, st, a, name, mac) ==
  [st EXCEPT ![a].toRename = nameAlreadyExists(map, st, name, mac)]

\* lines 88-91 of add: flag the Agent when another mac has its name
FlagIfDuplicate(map, st, a, name, mac) ==
  IF nameAlreadyExists(map, st, name, mac)
    THEN [st EXCEPT ![a].toRename = TRUE]
    ELSE st

\* add(jsonStr), lines 51-94: the collection and the call record it leaves
add(map, st, size, jsonStr) ==
  LET root == parseObject(jsonStr)
      name == AsCharPtr(root, "name")
      mac == AsCharPtr(root, "MAC")
      ip == AsCharPtr(root, "ip")
  IN IF ~root.success
       THEN [map |-> map, store |-> st, size |-> size,
             call |-> Call("add", Ptr(jsonStr), NULL, 500, <<>>, <<>>, 0)]
     ELSE IF name = NULL \/ mac = NULL \/ ip = NULL
       THEN [map |-> map, store |-> st, size |-> size,
             call |-> Call("add", Ptr(jsonStr), NULL, 0, <<>>, <<>>, 0)]
     ELSE
       LET ins == InsertAgent(map, st, Deref(name), Deref(mac))
           a == ins.agent
           st2 == [ins.store EXCEPT
                     ![a] = UpdateFields(@, root, Deref(name), Deref(ip))]
           st3 == FlagIfDuplicate(ins.map, st2, a, Deref(name), Deref(mac))
       IN [map |-> ins.map, store |-> st3, size |-> refreshListBufferSize(ins.map),
           call |-> Call("add", Ptr(jsonStr), Ptr(a), 0, <<>>, <<>>, 0)]

\* refresh as it would be if it also recorded that the module answered
refreshMarksPong(map, st, jsonStr) ==
  LET root == parseObject(jsonStr)
      mac == AsCharPtr(root, "MAC")
      it == IF mac = NULL THEN 0 ELSE MapFind(map, Deref(mac))
  IN IF ~root.success \/ mac = NULL \/ it = 0
       THEN [store |-> st, call |-> Call("refresh", Ptr(jsonStr), NULL, 0, <<>>, <<>>, 0)]
       ELSE [store |-> [st EXCEPT ![map[it].second].custom = AsCharPtr(root, "custom"),
                                  ![map[it].second].pong = TRUE],
             call |-> Call("refresh", Ptr(jsonStr), Ptr(map[it].second), 0, <<>>, <<>>, 0)]

\* refresh(jsonStr), lines 18-45
refresh(map, st, jsonStr) ==
  LET root == parseObject(jsonStr)
      mac == AsCharPtr(root, "MAC")
      it == IF mac = NULL THEN 0 ELSE MapFind(map, Deref(mac))
  IN IF ~root.success \/ mac = NULL \/ it = 0
       THEN [store |-> st, call |-> Call("refresh", Ptr(jsonStr), NULL, 0, <<>>, <<>>, 0)]
       ELSE [store |-> [st EXCEPT ![map[it].second].custom = AsCharPtr(root, "custom")],
             call |-> Call("refresh", Ptr(jsonStr), Ptr(map[it].second), 0, <<>>, <<>>, 0)]

\* one entry of the composite list() builds, lines 135-146
ListEntry(agent) ==
  LET shown == [key |-> agent.mac, name |-> agent.name, ip |-> agent.ip,
                canSleep |-> agent.canSleep, pong |-> agent.pong,
                uiClassName |-> agent.uiClassName, heap |-> agent.heap]
  IN IF agent.custom # NULL
       THEN [f \in DOMAIN shown \cup {"custom"} |->
               IF f = "custom" THEN Deref(agent.custom) ELSE shown[f]]
       ELSE shown

\* customSize after the loop of list() has visited the first n pairs, lines 132-148
RECURSIVE CustomSize(_, _, _)
CustomSize(map, st, n) ==
  IF n = 0 THEN 0
  ELSE IF AgentAt(map, st, n).custom # NULL
    THEN Len(Deref(AgentAt(map, st, n).custom))
    ELSE CustomSize(map, st, n - 1)

\* strlen()
strlen(str) == Len(str)

\* the length of the JSON text of a string, or of null for a NULL pointer
JsonStringLen(p) == IF p = NULL THEN 4 ELSE strlen(Deref(p)) + 2

\* the length of the JSON text of true or false
JsonBoolLen(b) == IF b THEN 4 ELSE 5

\* the length of the text "tag":value, value taking valueLen characters
JsonMemberLen(tag, valueLen) == TagLen(tag) + 2 + 1 + valueLen

\* the length of the text printTo writes for one agent, "mac":{...}
JsonEntryLen(agent) ==
  strlen(agent.mac) + 2 + 1 + 1
  + JsonMemberLen("name", JsonStringLen(Ptr(agent.name))) + 1
  + JsonMemberLen("ip", JsonStringLen(Ptr(agent.ip))) + 1
  + JsonMemberLen("canSleep", JsonBoolLen(agent.canSleep)) + 1
  + JsonMemberLen("pong", JsonBoolLen(agent.pong)) + 1
  + JsonMemberLen("uiClassName", JsonStringLen(agent.uiClassName)) + 1
  + JsonMemberLen("heap", Len(Decimal(agent.heap)))
  + (IF agent.custom # NULL
       THEN 1 + JsonMemberLen("custom", JsonStringLen(agent.custom))
       ELSE 0)
  + 1

\* the length of the text of the entries of the first n pairs, commas included
RECURSIVE JsonEntriesLen(_, _, _)
JsonEntriesLen(map, st, n) ==
  IF n = 0 THEN 0
  ELSE JsonEntriesLen(map, st, n - 1) + (IF n > 1 THEN 1 ELSE 0)
       + JsonEntryLen(AgentAt(map, st, n))

\* root.printTo(buffer, bufferSize), line 153: the text of the composite is
\* text characters long, and at most bufferSize - 1 of them are written
printTo(text, bufferSize) ==
  [text |-> text,
   length |-> IF text <= bufferSize - 1 THEN text
              ELSE IF bufferSize >= 1 THEN bufferSize - 1 ELSE 0]

\* list(), lines 119-156: the composite built, the size of the buffer
\* allocated, and the string returned
list(map, st, size) ==
  IF getCount(map) = 0
    THEN [Call("list", NULL, NULL, 0, <<>>, <<>>, 3)
            EXCEPT !.str = Ptr([text |-> 2, length |-> 2])]
    ELSE LET strBufferSize == size + CustomSize(map, st, Len(map))
         IN [Call("list", NULL, NULL, 0, <<>>,
                  [i \in 1..Len(map) |-> ListEntry(AgentAt(map, st, i))],
                  strBufferSize)
               EXCEPT !.str = Ptr(printTo(2 + JsonEntriesLen(map, st, Len(map)),
                                          strBufferSize - 1))]

\* the loop of reset() as it would be if it applied the condition of ping()
RECURSIVE ResetLoopSkipsSleepers(_, _, _, _, _)
ResetLoopSkipsSleepers(map, st, i, result, calls) ==
  IF i > Len(map) THEN [store |-> st, calls |-> calls]
  ELSE LET a == map[i].second
           mac == st[a].mac
       IN IF ~st[a].canSleep /\ st[a].pingPeriod > 0
            THEN ResetLoopSkipsSleepers(map, st, i + 1, result,
                              Append(calls, [mac |-> mac, result |-> result[mac]]))
            ELSE ResetLoopSkipsSleepers(map, st, i + 1, result, calls)

\* the loop of reset() from position i on, lines 162-172; result[mac] is what
\* Agent::reset returns for that module
RECURSIVE ResetLoop(_, _, _, _, _)
ResetLoop(map, st, i, result, calls) ==
  IF i > Len(map) THEN [store |-> st, calls |-> calls]
  ELSE LET a == map[i].second
           mac == st[a].mac
       IN ResetLoop(map, [st EXCEPT ![a] = AgentReset(@, result[mac])], i + 1,
                    result, Append(calls, [mac |-> mac, result |-> result[mac]]))

\* (bool)x assigned to an int, line 186
BoolOfInt(x) == IF x # 0 THEN 1 ELSE 0

\* the loop of ping() as it would be without the canSleep test of line 187
RECURSIVE PingLoopIgnoresSleep(_, _, _, _, _)
PingLoopIgnoresSleep(map, st, i, result, calls) ==
  IF i > Len(map) THEN [store |-> st, calls |-> calls]
  ELSE LET a == map[i].second
           mac == st[a].mac
       IN IF BoolOfInt(st[a].pingPeriod) > 0
            THEN PingLoopIgnoresSleep(map, [st EXCEPT ![a] = AgentPing(@, result[mac])],
                          i + 1, result,
                          Append(calls, [mac |-> mac, result |-> result[mac]]))
            ELSE PingLoopIgnoresSleep(map, st, i + 1, result, calls)

\* the loop of ping() as it would be if a failed ping ended the sweep
RECURSIVE PingLoopStopsOnFailure(_, _, _, _, _)
PingLoopStopsOnFailure(map, st, i, result, calls) ==
  IF i > Len(map) THEN [store |-> st, calls |-> calls]
  ELSE LET a == map[i].second
           mac == st[a].mac
       IN IF ~st[a].canSleep /\ BoolOfInt(st[a].pingPeriod) > 0
            THEN IF result[mac]
                   THEN PingLoopStopsOnFailure(map,
                          [st EXCEPT ![a] = AgentPing(@, TRUE)], i + 1, result,
                          Append(calls, [mac |-> mac, result |-> TRUE]))
                   ELSE [store |-> [st EXCEPT ![a] = AgentPing(@, FALSE)],
                         calls |-> Append(calls, [mac |-> mac, result |-> FALSE])]
            ELSE PingLoopStopsOnFailure(map, st, i + 1, result, calls)

\* the loop of ping() from position i on, lines 182-199; result[mac] is what
\* Agent::ping returns for that module
RECURSIVE PingLoop(_, _, _, _, _)
PingLoop(map, st, i, result, calls) ==
  IF i > Len(map) THEN [store |-> st, calls |-> calls]
  ELSE LET a == map[i].second
           mac == st[a].mac
           canSleep == st[a].canSleep
           pingPeriod == BoolOfInt(st[a].pingPeriod)
       IN IF ~canSleep /\ pingPeriod > 0
            THEN PingLoop(map, [st EXCEPT ![a] = AgentPing(@, result[mac])], i + 1,
                          result, Append(calls, [mac |-> mac, result |-> result[mac]]))
            ELSE PingLoop(map, st, i + 1, result, calls)

\* lines 213-220 of renameOne: alpha after the strtok calls, and digit
SplitName(name) ==
  LET withUnderscore == strtok(name, "_")
      digitPtr == IF withUnderscore.token # NULL
                    THEN strtok(withUnderscore.rest, "_").token
                    ELSE NULL
  IN [alpha |-> IF withUnderscore.nulAt > 0
                  THEN SubSeq(name, 1, withUnderscore.nulAt - 1)
                  ELSE name,
      digit |-> IF digitPtr # NULL THEN atoi(Deref(digitPtr)) ELSE 0]

\* sprintf(newName, "%s_%d", alpha, digit), line 223
FormatName(alpha, digit) == alpha \o <<"_">> \o Decimal(digit)

\* the loop of renameOne as it would be if the first candidate were taken
\* without asking nameAlreadyExists
RenameLoopUnchecked(map, st, alpha, mac, digit, overrun) ==
  [ok |-> TRUE, newName |-> FormatName(alpha, digit + 1),
   overrun |-> overrun \/ Len(FormatName(alpha, digit + 1)) > NAME_MAX_LENGTH]

\* the while loop of renameOne once its condition let it in, lines 222-228:
\* ok, the last name written to newName, and whether a write ran past the
\* NAME_MAX_LENGTH + 1 characters of newName
RECURSIVE RenameLoop(_, _, _, _, _, _)
RenameLoop(map, st, alpha, mac, digit, overrun) ==
  LET newName == FormatName(alpha, digit + 1)
      over == overrun \/ Len(newName) > NAME_MAX_LENGTH
  IN IF ~nameAlreadyExists(map, st, newName, mac)
       THEN [ok |-> TRUE, newName |-> newName, overrun |-> over]
     ELSE IF Len(newName) < NAME_MAX_LENGTH
       THEN RenameLoop(map, st, alpha, mac, digit + 1, over)
     ELSE [ok |-> FALSE, newName |-> newName, overrun |-> over]

\* F(v), with v evaluated once
With(v, F(_)) == CHOOSE r \in {F(x) : x \in {v}} : TRUE

\* lines 222-233 of renameOne, alpha and digit being split.alpha and split.digit
RenameFrom(map, st, size, a, shortGarbage, smashed, split) ==
  LET agent == st[a]
      loop == IF shortGarbage
                THEN RenameLoop(map, st, split.alpha, agent.mac, split.digit,
                                Len(agent.name) > NAME_MAX_LENGTH)
                ELSE [ok |-> FALSE, newName |-> NULL,
                      overrun |-> Len(agent.name) > NAME_MAX_LENGTH]
  IN With(loop, LAMBDA found :
       IF found.overrun /\ smashed
         THEN [map |-> <<>>, store |-> <<>>, size |-> 0,
               call |-> Call("restart", NULL, NULL, 0, <<>>, <<>>, 0)]
       ELSE IF ~found.ok
         THEN [map |-> map, store |-> st, size |-> size,
               call |-> [Call("renameOne", NULL, NULL, 0, <<>>, <<>>, 0)
                           EXCEPT !.agent = Ptr(a)]]
       ELSE [map |-> map, store |-> [st EXCEPT ![a] = renameTo(@, found.newName)],
             size |-> size,
             call |-> [Call("renameOne", NULL, NULL, 0,
                            <<[mac |-> agent.mac, result |-> TRUE]>>, <<>>, 0)
                         EXCEPT !.agent = Ptr(a)]])

\* renameOne(agent), lines 205-235.  newName is read by the loop condition
\* before anything is written to it: shortGarbage says whether the bytes found
\* there make strlen(newName) < NAME_MAX_LENGTH.  A write past the end of alpha
\* or newName either does no harm or (smashed) brings the module down, and the
\* master restarts with an empty collection.
renameOne(map, st, size, a, shortGarbage, smashed) ==
  With(SplitName(st[a].name),
       LAMBDA split : RenameFrom(map, st, size, a, shortGarbage, smashed, split))

-----------------------------------------------------------------------------
(* The requests modules send *)

Lamp == <<"L", "a", "m", "p">>

Fan == <<"F", "a", "n">>

Macs == {MacOrder[i] : i \in 1..Len(MacOrder)}

\* the address each module has on the network
IpOf(mac) ==
  CASE mac = "AA:AA" -> "10.0.0.1"
    [] mac = "BB:BB" -> "10.0.0.2"
    [] mac = "CC:CC" -> "10.0.0.3"

\* a well-formed request text and one the parser rejects
Json(members) == [wellFormed |-> TRUE, members |-> members]

Broken(members) == [wellFormed |-> FALSE, members |-> members]

\* a custom payload of n characters
CustomOfLen(n) == [i \in 1..n |-> "c"]

\* registration with the required members only
Minimal(name, mac) == [name |-> name, MAC |-> mac, ip |-> IpOf(mac)]

\* registration with every member
Full(name, mac, canSleep, pingPeriod, customLen) ==
  [name |-> name, MAC |-> mac, ip |-> IpOf(mac), canSleep |-> canSleep,
   custom |-> CustomOfLen(customLen), uiClassName |-> "switch", heap |-> 100,
   pingPeriod |-> pingPeriod]

\* registrations that fail: unparseable text, and name, mac or ip missing
FailingAdds ==
  {Broken(Minimal(Lamp, "AA:AA")), Broken(Minimal(Lamp, "CC:CC")),
   Json([MAC |-> "AA:AA", ip |-> "10.0.0.1"]),
   Json([name |-> Lamp, ip |-> "10.0.0.3"]),
   Json([name |-> Lamp, MAC |-> "BB:BB"])}

\* requests of the registry specification
RegistryAdds ==
  {Json(Minimal(Lamp, mac)) : mac \in Macs}
  \cup {Json(Full(Fan, "BB:BB", FALSE, 1, 1))}
  \cup FailingAdds

RegistryRefreshes ==
  {Json([MAC |-> mac]) : mac \in Macs}
  \cup {Json([MAC |-> "BB:BB", custom |-> CustomOfLen(MaxCustomLen)])}
  \cup {Broken([MAC |-> "AA:AA", custom |-> CustomOfLen(1)]),
        Json([custom |-> CustomOfLen(1)])}

Tv == <<"T", "v">>

\* a registration that says whether the module sleeps and how often to ping it
Pingable(name, mac, canSleep, pingPeriod) ==
  [name |-> name, MAC |-> mac, ip |-> IpOf(mac), canSleep |-> canSleep,
   pingPeriod |-> pingPeriod]

\* requests of the ping specification: negative, zero and positive periods
PingAdds ==
  {Json(Pingable(Lamp, "AA:AA", canSleep, pingPeriod)) :
     canSleep \in BOOLEAN, pingPeriod \in (0 - 1)..MaxPingPeriod}
  \cup {Json(Pingable(Fan, "BB:BB", canSleep, pingPeriod)) :
     canSleep \in BOOLEAN, pingPeriod \in (0 - 1)..MaxPingPeriod}
  \cup {Json(Pingable(Tv, "CC:CC", canSleep, 1)) : canSleep \in BOOLEAN}

\* a name two characters short of the longest name: with "_1" it is full
LongName == [i \in 1..(NAME_MAX_LENGTH - 2) |-> "x"]

\* requests of the naming specification: three modules that all ask for the
\* same short or long name, and one that asks for the long name's first
\* renaming
NamingAdds ==
  {Json(Minimal(name, mac)) : name \in {Lamp, LongName}, mac \in Macs}
  \cup {Json(Minimal(LongName \o <<"_", "1">>, "AA:AA"))}

NamingRefreshes == {Json([MAC |-> "AA:AA"]), Json([MAC |-> "CC:CC"])}

\* the name each module of the listing specification registers with
NameOf(mac) ==
  CASE mac = "AA:AA" -> Lamp
    [] mac = "BB:BB" -> Fan
    [] mac = "CC:CC" -> Tv

\* registration with a custom payload of customLen characters
WithCustom(name, mac, customLen) ==
  [name |-> name, MAC |-> mac, ip |-> IpOf(mac), custom |-> CustomOfLen(customLen)]

\* requests of the listing specification: modules with no custom payload,
\* a short one or a long one, and one with every member
ListAdds ==
  {Json(Minimal(NameOf(mac), mac)) : mac \in Macs}
  \cup {Json(WithCustom(NameOf(mac), mac, customLen)) :
          mac \in Macs, customLen \in {1, LongCustomLen}}
  \cup {Json(Full(Fan, "BB:BB", TRUE, 1, 1))}

ListRefreshes ==
  {Json([MAC |-> mac, custom |-> CustomOfLen(MaxCustomLen)]) : mac \in Macs}
  \cup {Json([MAC |-> "CC:CC"])}

My_Lamp == <<"M", "y", "_", "L", "a", "m", "p">>

A_B_3 == <<"A", "_", "B", "_", "3">>

\* a name one character short of the longest name
NearFullName == [i \in 1..(NAME_MAX_LENGTH - 1) |-> "y"]

\* requests of the renaming specification: modules that ask for the same
\* name, with "_" inside it, with a numeric suffix, or nearly of full length
RenameAdds ==
  {Json(Minimal(name, mac)) :
     name \in {My_Lamp, A_B_3, NearFullName}, mac \in {"AA:AA", "BB:BB"}}
  \cup {Json(Minimal(A_B_3, "CC:CC"))}

RenameRefreshes == {Json([MAC |-> "BB:BB"])}

\* every module answers
AllAnswer == {[mac \in Macs |-> TRUE]}

\* the outcomes Agent::ping and Agent::reset can have on the modules
Outcomes == [Macs -> BOOLEAN]

\* the outcomes in which at most one module fails to answer
FewOutcomes == {o \in Outcomes : Cardinality({m \in Macs : ~o[m]}) <= 1}

-----------------------------------------------------------------------------
(* The state machine *)

\* _listBufferSize is not set by the constructor (lines 9-12)
UninitializedSizes == {0, 4096}

Init ==
  /\ _agents = <<>>
  /\ store = <<>>
  /\ _listBufferSize \in UninitializedSizes
  /\ last = Call("new", NULL, NULL, 0, <<>>, <<>>, 0)

Add(jsonStr) ==
  LET r == add(_agents, store, _listBufferSize, jsonStr) IN
    /\ _agents' = r.map
    /\ store' = r.store
    /\ _listBufferSize' = r.size
    /\ last' = r.call

Refresh(jsonStr) ==
  LET r == refresh(_agents, store, jsonStr) IN
    /\ store' = r.store
    /\ last' = r.call
    /\ UNCHANGED <<_agents, _listBufferSize>>

\* list() as it would be if it kept the size it allocated as the estimate
ListKeepsSize ==
  /\ last' = list(_agents, store, _listBufferSize)
  /\ _listBufferSize' = last'.size
  /\ UNCHANGED <<_agents, store>>

\* list(), lines 119-156: no member is written
List ==
  /\ last' = list(_agents, store, _listBufferSize)
  /\ UNCHANGED <<_agents, store, _listBufferSize>>

Reset(result) ==
  LET r == ResetLoop(_agents, store, 1, result, <<>>) IN
    /\ store' = r.store
    /\ last' = Call("reset", NULL, NULL, 0, r.calls, <<>>, 0)
    /\ UNCHANGED <<_agents, _listBufferSize>>

Ping(result) ==
  LET r == PingLoop(_agents, store, 1, result, <<>>) IN
    /\ store' = r.store
    /\ last' = Call("ping", NULL, NULL, 0, r.calls, <<>>, 0)
    /\ UNCHANGED <<_agents, _listBufferSize>>

\* the master calls renameOne on the agents whose pending-rename flag is set
RenameOne(a, shortGarbage, smashed) ==
  /\ \E i \in 1..Len(_agents) : _agents[i].second = a
  /\ store[a].toRename
  /\ \E r \in {renameOne(_agents, store, _listBufferSize, a, shortGarbage, smashed)} :
       /\ _agents' = r.map
       /\ store' = r.store
       /\ _listBufferSize' \in
            (IF r.call.op = "restart" THEN UninitializedSizes ELSE {r.size})
       /\ last' = r.call

Addresses == 1..Len(MacOrder)

NextOver(adds, refreshes, outcomes) ==
  \/ \E jsonStr \in adds : Add(jsonStr)
  \/ \E jsonStr \in refreshes : Refresh(jsonStr)
  \/ List
  \/ \E result \in outcomes : Reset(result)
  \/ \E result \in outcomes : Ping(result)
  \/ \E a \in Addresses, shortGarbage \in BOOLEAN, smashed \in BOOLEAN :
       RenameOne(a, shortGarbage, smashed)

Next == NextOver(RegistryAdds, RegistryRefreshes, FewOutcomes)

Spec == Init /\ [][Next]_vars

\* registrations, sweeps and listings of modules with distinct names
NextPing ==
  \/ \E jsonStr \in PingAdds : Add(jsonStr)
  \/ List
  \/ \E result \in Outcomes : Reset(result)
  \/ \E result \in Outcomes : Ping(result)

SpecPing == Init /\ [][NextPing]_vars

\* registrations, refreshes and listings of modules with distinct names
NextList ==
  \/ \E jsonStr \in ListAdds : Add(jsonStr)
  \/ \E jsonStr \in ListRefreshes : Refresh(jsonStr)
  \/ List

SpecList == Init /\ [][NextList]_vars

NextNaming == NextOver(NamingAdds, NamingRefreshes, AllAnswer)

SpecNaming == Init /\ [][NextNaming]_vars

NextRename == NextOver(RenameAdds, RenameRefreshes, AllAnswer)

SpecRename == Init /\ [][NextRename]_vars

\* the master's loop keeps calling renameOne on every agent that is flagged
SpecNamingFair ==
  /\ Init
  /\ [][NextNaming]_vars
  /\ \A a \in Addresses :
       WF_vars(\E shortGarbage \in BOOLEAN, smashed \in BOOLEAN :
                 RenameOne(a, shortGarbage, smashed))

-----------------------------------------------------------------------------
(* Properties of the registry *)

\* the registered Agent for mac, in the current state
Registered(mac) == MapFind(_agents, mac) # 0

AgentOf(mac) == AgentAt(_agents, store, MapFind(_agents, mac))

\* the request the last call was given
LastRequest == Deref(last.arg)

\* name, mac and ip are all present in a well-formed request
ValidRegistration(jsonStr) ==
  jsonStr.wellFormed /\ {"name", "MAC", "ip"} \subseteq DOMAIN jsonStr.members

\* C1: in every reachable state the registry holds at most one Agent per mac,
\* every pair of the map points to a live Agent whose mac is the key of the
\* pair, and no Agent object exists outside the map.
C1_OneAgentPerMac ==
  /\ \A i \in 1..Len(_agents) : _agents[i].second \in DOMAIN store
  /\ \A i \in 1..Len(_agents) : AgentAt(_agents, store, i).mac = _agents[i].first
  /\ \A i, j \in 1..Len(_agents) :
       AgentAt(_agents, store, i).mac = AgentAt(_agents, store, j).mac => i = j
  /\ \A a, b \in DOMAIN store : store[a].mac = store[b].mac => a = b
  /\ DOMAIN store = {_agents[i].second : i \in 1..Len(_agents)}

\* three modules are registered, and BB:BB registered twice: it is named Fan
\* by its second registration and still flagged by its first, as Lamp
C1_Witness ==
  /\ Len(_agents) = 3
  /\ AgentOf("BB:BB").name = Fan
  /\ AgentOf("BB:BB").toRename

\* C2: a step that is add of a valid registration inserts exactly one new
\* Agent and raises getCount() by 1 when the mac was not registered, and
\* returns the Agent already registered, creating none and leaving getCount()
\* as it was, when the mac was registered.
C2_AddCount ==
  [][(last'.op = "add" /\ ValidRegistration(Deref(last'.arg))) =>
       LET mac == Deref(last'.arg).members.MAC
           it == MapFind(_agents, mac)
       IN IF it = 0
            THEN /\ getCount(_agents') = getCount(_agents) + 1
                 /\ \E a \in DOMAIN store' :
                      /\ a \notin DOMAIN store
                      /\ DOMAIN store' = DOMAIN store \cup {a}
                      /\ last'.ret = Ptr(a)
                      /\ store'[a].mac = mac
                      /\ _agents'[MapFind(_agents', mac)].second = a
            ELSE /\ getCount(_agents') = getCount(_agents)
                 /\ last'.ret = Ptr(_agents[it].second)
                 /\ DOMAIN store' = DOMAIN store
                 /\ _agents' = _agents]_vars

\* add has just returned the Agent of BB:BB for a registration of a mac that
\* was registered before (the Agent still carries the flag of its first name)
C2_Witness ==
  /\ last.op = "add"
  /\ ValidRegistration(LastRequest)
  /\ LastRequest.members.MAC = "BB:BB"
  /\ last.ret = Ptr(_agents[MapFind(_agents, "BB:BB")].second)
  /\ AgentOf("BB:BB").name = Fan
  /\ AgentOf("BB:BB").toRename
  /\ Len(_agents) = 2

\* the request the step just taken was given fails: add of a text that does
\* not parse or lacks name, mac or ip; refresh of a text that does not parse,
\* lacks mac, or names a mac that is not registered
FailingStep ==
  \/ /\ last'.op = "add"
     /\ ~ValidRegistration(Deref(last'.arg))
  \/ /\ last'.op = "refresh"
     /\ \/ ~Deref(last'.arg).wellFormed
        \/ "MAC" \notin DOMAIN Deref(last'.arg).members
        \/ MapFind(_agents, Deref(last'.arg).members.MAC) = 0

\* C3: a failing add or refresh returns NULL and leaves the map, every Agent
\* and the cached buffer size as they were.
C3_FailureLeavesRegistry ==
  [][FailingStep =>
       /\ last'.ret = NULL
       /\ _agents' = _agents
       /\ store' = store
       /\ _listBufferSize' = _listBufferSize]_vars

\* a refresh for CC:CC, which is not registered, has just failed on a
\* registry that holds other modules
C3_Witness ==
  /\ last.op = "refresh"
  /\ LastRequest = Json([MAC |-> "CC:CC"])
  /\ last.ret = NULL
  /\ Len(_agents) = 2
  /\ ~Registered("CC:CC")

\* C4: a refresh that succeeds changes nothing but the custom field of the
\* Agent it returns.
C4_RefreshFrame ==
  [][(last'.op = "refresh" /\ last'.ret # NULL) =>
       /\ _agents' = _agents
       /\ _listBufferSize' = _listBufferSize
       /\ DOMAIN store' = DOMAIN store
       /\ \A a \in DOMAIN store :
            IF Ptr(a) = last'.ret
              THEN [store'[a] EXCEPT !.custom = store[a].custom] = store[a]
              ELSE store'[a] = store[a]]_vars

\* refresh has just given BB:BB a custom payload, while BB:BB answered its
\* last ping and another module is registered
C4_Witness ==
  /\ last.op = "refresh"
  /\ last.ret # NULL
  /\ Registered("BB:BB") /\ Registered("AA:AA")
  /\ last.ret = Ptr(_agents[MapFind(_agents, "BB:BB")].second)
  /\ AgentOf("BB:BB").custom = Ptr(CustomOfLen(MaxCustomLen))
  /\ AgentOf("BB:BB").pong
  /\ AgentOf("BB:BB").pingPeriod = 1

-----------------------------------------------------------------------------
(* Properties of the sweeps *)

\* the number of times the last sweep invoked the Agent of mac
CallsOn(mac) == Cardinality({k \in 1..Len(last.calls) : last.calls[k].mac = mac})

\* C5: a ping() sweep invokes Agent::ping on no agent whose canSleep is true.
C5_SleepersNotPinged ==
  last.op = "ping" =>
    \A k \in 1..Len(last.calls) : ~AgentOf(last.calls[k].mac).canSleep

\* a sweep has just pinged one module and passed over two that can sleep, one
\* of them with a positive and one with a negative pingPeriod
C5_Witness ==
  /\ last.op = "ping"
  /\ Len(_agents) = 3
  /\ Len(last.calls) = 1
  /\ \E m \in Macs : AgentOf(m).canSleep /\ AgentOf(m).pingPeriod > 0
  /\ \E m \in Macs : AgentOf(m).canSleep /\ AgentOf(m).pingPeriod < 0

\* C6: a ping() sweep invokes Agent::ping on no agent whose pingPeriod is less
\* than or equal to 0.
C6_NonPositivePeriodNotPinged ==
  last.op = "ping" =>
    \A k \in 1..Len(last.calls) : AgentOf(last.calls[k].mac).pingPeriod > 0

\* C7: a ping() sweep invokes Agent::ping exactly once on every registered
\* agent with canSleep false and pingPeriod > 0, whatever the outcome of the
\* pings made before.
C7_EligiblePingedOnce ==
  last.op = "ping" =>
    \A i \in 1..Len(_agents) :
      LET agent == AgentAt(_agents, store, i) IN
        (~agent.canSleep /\ agent.pingPeriod > 0) => CallsOn(agent.mac) = 1

\* a sweep has just pinged three modules although the first ping failed
C7_Witness ==
  /\ last.op = "ping"
  /\ Len(_agents) = 3
  /\ \A i \in 1..3 : LET agent == AgentAt(_agents, store, i) IN
                       ~agent.canSleep /\ agent.pingPeriod > 0
  /\ Len(last.calls) = 3
  /\ ~last.calls[1].result
  /\ last.calls[3].result

\* C8: a step that is a reset() sweep invokes Agent::reset exactly once on
\* every registered agent and leaves the map and the set of Agents as they
\* were.
C8_ResetAll ==
  [][last'.op = "reset" =>
       /\ _agents' = _agents
       /\ DOMAIN store' = DOMAIN store
       /\ Len(last'.calls) = Len(_agents)
       /\ \A i \in 1..Len(_agents) :
            last'.calls[i].mac = AgentAt(_agents, store, i).mac]_vars

\* a sweep has just reset three modules, the first reset failing, one module
\* being allowed to sleep and one having a pingPeriod of 0
C8_Witness ==
  /\ last.op = "reset"
  /\ Len(_agents) = 3
  /\ Len(last.calls) = 3
  /\ ~last.calls[1].result
  /\ last.calls[2].result
  /\ \E m \in Macs : AgentOf(m).canSleep
  /\ \E m \in Macs : ~AgentOf(m).canSleep /\ AgentOf(m).pingPeriod = 0

-----------------------------------------------------------------------------
(* Properties of the naming policy *)

\* the registry holds exactly the modules of macs, named as names says
Holds(macs, names) ==
  /\ {_agents[i].first : i \in 1..Len(_agents)} = macs
  /\ \A m \in macs : AgentOf(m).name = names[m]

\* the step just taken is add of (name, mac, ip(mac)) and nothing else
AddedStep(name, mac) ==
  last'.op = "add" /\ Deref(last'.arg) = Json(Minimal(name, mac))

\* the step just taken is renameOne on the Agent of mac
RenamedStep(mac) ==
  last'.op = "renameOne" /\ last'.agent = Ptr(_agents[MapFind(_agents, mac)].second)

\* the Agent of mac after the step
AgentOfNext(mac) == store'[_agents'[MapFind(_agents', mac)].second]

Lamp_1 == Lamp \o <<"_", "1">>

Lamp_2 == Lamp \o <<"_", "2">>

\* C9: from a registry that holds ("Lamp", "AA:AA"), add of ("Lamp", "BB:BB",
\* "10.0.0.2") leaves BB:BB named "Lamp" and flagged; renameOne on BB:BB then
\* names it "Lamp_1" and clears the flag; add of "Lamp" on CC:CC then flags
\* CC:CC, and renameOne on CC:CC names it "Lamp_2".
C9_LampScenario ==
  [][/\ (/\ Holds({"AA:AA"}, [m \in {"AA:AA"} |-> Lamp])
         /\ AddedStep(Lamp, "BB:BB"))
        => (AgentOfNext("BB:BB").name = Lamp /\ AgentOfNext("BB:BB").toRename)
     /\ (/\ Holds({"AA:AA", "BB:BB"}, [m \in {"AA:AA", "BB:BB"} |-> Lamp])
         /\ AgentOf("BB:BB").toRename
         /\ RenamedStep("BB:BB"))
        => (AgentOfNext("BB:BB").name = Lamp_1 /\ ~AgentOfNext("BB:BB").toRename)
     /\ (/\ Holds({"AA:AA", "BB:BB"}, [m \in {"AA:AA", "BB:BB"} |->
                                        IF m = "AA:AA" THEN Lamp ELSE Lamp_1])
         /\ AddedStep(Lamp, "CC:CC"))
        => (AgentOfNext("CC:CC").name = Lamp /\ AgentOfNext("CC:CC").toRename)
     /\ (/\ Holds(Macs, [m \in Macs |-> IF m = "BB:BB" THEN Lamp_1 ELSE Lamp])
         /\ AgentOf("CC:CC").toRename
         /\ RenamedStep("CC:CC"))
        => (AgentOfNext("CC:CC").name = Lamp_2 /\ ~AgentOfNext("CC:CC").toRename)
    ]_vars

\* no two agents with different macs share a name
UniqueNames ==
  \A i, j \in 1..Len(_agents) :
    i # j => AgentAt(_agents, store, i).name # AgentAt(_agents, store, j).name

\* a step that registers a module (add is the only call that leaves "add")
AddStep == last'.op = "add"

\* C10: if from some point on no add occurs, and renameOne keeps being called
\* on the flagged agents, a state is eventually reached, and kept, in which no
\* two agents with different macs share a name.
C10_EventuallyUnique == (<>[][~AddStep]_vars) => <>[]UniqueNames

-----------------------------------------------------------------------------
(* Properties of registration *)

\* the step just taken is an add that succeeded
AddSucceeded == last'.op = "add" /\ last'.ret # NULL

\* the members of the request of the step just taken
NextMembers == Deref(last'.arg).members

\* some agent with another mac than mac is named name, in the current state
OwnedByOther(name, mac) ==
  \E m \in Macs \ {mac} : Registered(m) /\ AgentOf(m).name = name

\* C11: after a successful add the agent's name is the name of the payload,
\* also when another mac has that name; its pending-rename flag is set when
\* some agent with another mac has that name, and is what it was (unset for
\* a new agent) when no other mac has it.
C11_AddFlagsDuplicate ==
  [][AddSucceeded =>
       LET mac == NextMembers.MAC
           name == NextMembers.name
       IN /\ AgentOfNext(mac).name = name
          /\ OwnedByOther(name, mac) => AgentOfNext(mac).toRename
          /\ ~OwnedByOther(name, mac) =>
                AgentOfNext(mac).toRename = (Registered(mac) /\ AgentOf(mac).toRename)
     ]_vars

\* BB:BB, registered and pinged as Fan, has just registered again as Lamp,
\* the only Lamp of the registry, and is not flagged
C11_Witness ==
  /\ last.op = "add"
  /\ LastRequest = Json(Minimal(Lamp, "BB:BB"))
  /\ Len(_agents) = 1
  /\ AgentOf("BB:BB").name = Lamp
  /\ AgentOf("BB:BB").pong
  /\ ~AgentOf("BB:BB").toRename

\* C12: in every registry state, for every name and every mac,
\* nameAlreadyExists(name, mac) is true exactly when some registered agent
\* has that name and another mac; a name only the given mac owns gives false.
C12_NameExists ==
  \A name \in {Lamp, Fan}, mac \in Macs :
    nameAlreadyExists(_agents, store, name, mac)
      <=> \E a \in DOMAIN store : store[a].name = name /\ store[a].mac # mac

\* Lamp is owned by AA:AA alone, next to an agent of another name: the name
\* exists for BB:BB and CC:CC and not for AA:AA
C12_Witness ==
  /\ Holds({"AA:AA", "BB:BB"}, [m \in {"AA:AA", "BB:BB"} |->
                                 IF m = "AA:AA" THEN Lamp ELSE Fan])
  /\ ~nameAlreadyExists(_agents, store, Lamp, "AA:AA")
  /\ nameAlreadyExists(_agents, store, Lamp, "BB:BB")
  /\ nameAlreadyExists(_agents, store, Lamp, "CC:CC")

\* the value of an optional member, or its default
MemberOr(members, tag, default) ==
  IF tag \in DOMAIN members THEN members[tag] ELSE default

\* the pointer to an optional string member, NULL when absent
MemberPtr(members, tag) ==
  IF tag \in DOMAIN members THEN Ptr(members[tag]) ELSE NULL

\* C13: after a successful add, canSleep, custom, uiClassName, heap,
\* pingPeriod, ip and name of the agent are the values of the payload, or the
\* defaults (false, absent, absent, 0, 0) for the optional members it lacks,
\* whatever the agent held before.
C13_AddOverwrites ==
  [][AddSucceeded =>
       LET agent == AgentOfNext(NextMembers.MAC) IN
         /\ agent.name = NextMembers.name
         /\ agent.ip = NextMembers.ip
         /\ agent.canSleep = MemberOr(NextMembers, "canSleep", FALSE)
         /\ agent.pingPeriod = MemberOr(NextMembers, "pingPeriod", 0)
         /\ agent.heap = MemberOr(NextMembers, "heap", 0)
         /\ agent.custom = MemberPtr(NextMembers, "custom")
         /\ agent.uiClassName = MemberPtr(NextMembers, "uiClassName")
     ]_vars

\* BB:BB, which a sweep pinged while its pingPeriod was 1, has just
\* registered again without pingPeriod, custom and canSleep: they are 0,
\* absent and false
C13_Witness ==
  /\ last.op = "add"
  /\ LastRequest = Json(Minimal(Lamp, "BB:BB"))
  /\ Len(_agents) = 2
  /\ AgentOf("BB:BB").pong
  /\ AgentOf("BB:BB").pingPeriod = 0
  /\ AgentOf("BB:BB").custom = NULL
  /\ AgentOf("BB:BB").toRename

-----------------------------------------------------------------------------
(* Properties of list() *)

\* the entry list() is to give for an agent
ExpectedEntry(agent) ==
  IF agent.custom = NULL
    THEN [key |-> agent.mac, name |-> agent.name, ip |-> agent.ip,
          canSleep |-> agent.canSleep, pong |-> agent.pong,
          uiClassName |-> agent.uiClassName, heap |-> agent.heap]
    ELSE [key |-> agent.mac, name |-> agent.name, ip |-> agent.ip,
          canSleep |-> agent.canSleep, pong |-> agent.pong,
          uiClassName |-> agent.uiClassName, heap |-> agent.heap,
          custom |-> Deref(agent.custom)]

\* the string list() returned holds the whole text of the composite
ReturnedWhole == Deref(last.str).length = Deref(last.str).text

\* C14: list() on an empty registry returns "{}"; on N agents it returns
\* exactly N entries, one per registered mac and keyed by it, each with the
\* agent's current name, ip, canSleep, pong, uiClassName and heap, and with
\* custom exactly when the agent has one.
C14_ListEntries ==
  last.op = "list" =>
    IF Len(_agents) = 0
      THEN last.out = <<>> /\ Deref(last.str) = [text |-> 2, length |-> 2]
      ELSE /\ Len(last.out) = Len(_agents)
           /\ \A i \in 1..Len(_agents) :
                /\ last.out[i].key = _agents[i].first
                /\ last.out[i] = ExpectedEntry(AgentAt(_agents, store, i))
           /\ ReturnedWhole

\* C15: a list() step leaves the map, every agent and the cached estimate as
\* they were, and a list() that follows a list() returns what it returned.
C15_ListReadOnly ==
  [][last'.op = "list" =>
       /\ _agents' = _agents
       /\ store' = store
       /\ _listBufferSize' = _listBufferSize
       /\ last.op = "list" => (last'.out = last.out /\ last'.str = last.str)
     ]_vars

\* list() has just returned the three entries of a registry in which two
\* agents have a custom payload and one has none
C15_Witness ==
  /\ last.op = "list"
  /\ Len(last.out) = 3
  /\ "custom" \in DOMAIN last.out[1]
  /\ "custom" \notin DOMAIN last.out[2]
  /\ "custom" \in DOMAIN last.out[3]
  /\ last.out[3].custom = CustomOfLen(MaxCustomLen)
  /\ ReturnedWhole

\* the length of the longest custom payload among the registered agents
LongestCustom ==
  LET lens == {Len(Deref(store[a].custom)) : a \in {b \in DOMAIN store : store[b].custom # NULL}}
  IN IF lens = {} THEN 0 ELSE CHOOSE n \in lens : \A k \in lens : k <= n

\* C18: on a registry that is not empty, the capacity list() allocates is at
\* least the cached estimate plus the length of the longest custom payload of
\* the registered agents, in whatever order the agents are visited.
C18_CapacityCoversLongestCustom ==
  (last.op = "list" /\ Len(_agents) > 0) =>
    /\ _listBufferSize = refreshListBufferSize(_agents)
    /\ last.size >= _listBufferSize + LongestCustom

-----------------------------------------------------------------------------
(* Properties of renameOne *)

\* the step just taken is renameOne on the Agent at address a
RenameStepOn(a) == last'.op = "renameOne" /\ last'.agent = Ptr(a)

\* the step just taken is a renameOne that called renameTo
RenameSucceeded == last'.op = "renameOne" /\ last'.calls # <<>>

\* the position of the "_" that starts the numeric suffix of name, 0 if the
\* name does not end in "_" and digits
SuffixAt(name) ==
  LET ends == {k \in 1..(Len(name) - 1) :
                 name[k] = "_" /\ \A j \in (k + 1)..Len(name) : IsDigit(name[j])}
  IN IF ends = {} THEN 0 ELSE CHOOSE k \in ends : TRUE

\* base and suffix of name, split at its last "_"-delimited numeric suffix
BaseAndSuffix(name) ==
  IF SuffixAt(name) = 0
    THEN [base |-> name, suffix |-> 0]
    ELSE [base |-> SubSeq(name, 1, SuffixAt(name) - 1),
          suffix |-> DigitRun(name, SuffixAt(name) + 1, 0)]

\* the smallest n above suffix for which no agent of another mac is named base_n
SmallestFree(base, suffix, mac) ==
  CHOOSE n \in (suffix + 1)..(suffix + Len(MacOrder)) :
    /\ ~OwnedByOther(FormatName(base, n), mac)
    /\ \A k \in (suffix + 1)..(n - 1) : OwnedByOther(FormatName(base, k), mac)

\* C16: when renameOne succeeds on an agent, its new name is base_n, base and
\* suffix being its name split at its last "_"-delimited numeric suffix (the
\* whole name and 0 when it has none, as for "My_Lamp"; "A_B" and 3 for
\* "A_B_3") and n the smallest integer above suffix for which no agent with
\* another mac has that name; the pending-rename flag is cleared.
C16_RenameSuffix ==
  [][RenameSucceeded =>
       LET a == Deref(last'.agent)
           split == BaseAndSuffix(store[a].name)
           n == SmallestFree(split.base, split.suffix, store[a].mac)
       IN /\ store'[a].name = FormatName(split.base, n)
          /\ ~store'[a].toRename
     ]_vars

\* some candidate base_n of the agent at a fits NAME_MAX_LENGTH and is free
CandidateFits(a) ==
  LET split == SplitName(store[a].name) IN
    \E n \in (split.digit + 1)..(split.digit + Len(MacOrder)) :
      /\ Len(FormatName(split.alpha, n)) <= NAME_MAX_LENGTH
      /\ ~OwnedByOther(FormatName(split.alpha, n), store[a].mac)

\* C17: renameOne assigns no name longer than NAME_MAX_LENGTH, and when no
\* candidate fits the agent keeps its name and its pending-rename flag.
C17_RenameBounded ==
  [][\A a \in DOMAIN store :
       (RenameStepOn(a) \/ last'.op = "restart") =>
         /\ a \in DOMAIN store'
         /\ Len(store'[a].name) <= NAME_MAX_LENGTH
         /\ ~CandidateFits(a) =>
               (store'[a].name = store[a].name /\ store'[a].toRename)
     ]_vars

-----------------------------------------------------------------------------
(* Properties of the two-phase rename protocol *)

\* C19: in every reachable state, of any two registered agents with
\* different macs and the same name at least one has its pending-rename flag
\* set.
C19_DuplicatesPending ==
  \A i, j \in 1..Len(_agents) :
    (i # j /\ AgentAt(_agents, store, i).name = AgentAt(_agents, store, j).name)
      => (AgentAt(_agents, store, i).toRename \/ AgentAt(_agents, store, j).toRename)

\* renameOne has just named BB:BB Lamp_1 and cleared its flag, while AA:AA
\* and CC:CC are both named Lamp and only CC:CC is flagged
C19_Witness ==
  /\ last.op = "renameOne"
  /\ last.calls = <<[mac |-> "BB:BB", result |-> TRUE]>>
  /\ Holds(Macs, [m \in Macs |-> IF m = "BB:BB" THEN Lamp_1 ELSE Lamp])
  /\ ~AgentOf("AA:AA").toRename
  /\ ~AgentOf("BB:BB").toRename
  /\ AgentOf("CC:CC").toRename

=============================================================================
